---------------------------- MODULE Spec2Model ----------------------------
(***************************************************************************)
(* TruthGuard: the analysis route (POST, storeComprehensiveAnalysis,       *)
(* generateAdditionalInsights, generateComprehensiveFallbackAnalysis) and  *)
(* the storage route (POST, analyzeContentWithGoogleAI,                    *)
(* generateEnhancedFallbackAnalysis, extractTopic, triggerRealTimeUpdate). *)
(*                                                                         *)
(* Numbers.  A score is a fixed-point integer counting units of 1/Scale,   *)
(* so 0.7 is Frac(7, 10).  Scale is a common multiple of every       *)
(* divisor the scorers use (15, 10, 5, 3, 2 and the tenths 0.8, 0.6, 0.7), *)
(* so every score the code computes is represented exactly.  The length-   *)
(* normalised sentiment divides by the word count and is kept as an exact  *)
(* fraction [num, den].  JavaScript strings are TLA+ strings.              *)
(***************************************************************************)
EXTENDS Integers, Sequences, FiniteSets, TLC

(***************************************************************************)
(* State.  input, ret1 and ret2 are a caller of the pure functions: an     *)
(* argument and the values returned by a first and a second call.  now is  *)
(* the clock that new Date() reads.                                        *)
(***************************************************************************)
VARIABLES input, now, ret1, ret2

(***************************************************************************)
(* areq is the request the analysis route's POST is handling, sreq the     *)
(* requests of the storage route's POST (slot 0 is the one the analysis    *)
(* route sends, the others come from clients), articles and                *)
(* realtime_updates the two collections of the database, clientConnected   *)
(* the state of the storage route's module-level MongoClient.              *)
(***************************************************************************)
VARIABLES areq, sreq, articles, realtime_updates, clientConnected

(***************************************************************************)
(* listing is the request the storage route's GET is handling, sse the     *)
(* stream of the server-sent-events route with its timer and callbacks,    *)
(* page the state of the analyze page, dash that of the dashboard page.    *)
(***************************************************************************)
VARIABLES listing, sse, page, dash

fnVars == <<input, now, ret1, ret2>>
routeVars == <<areq, sreq, articles, realtime_updates, clientConnected>>
uiVars == <<listing, sse, page, dash>>
vars == <<input, now, ret1, ret2, areq, sreq, articles, realtime_updates, clientConnected,
          listing, sse, page, dash>>

Scale == 15 * 10 * 4

\* n / d as a fixed-point score
Frac(n, d) == (n * Scale) \div d

Min(a, b) == IF a <= b THEN a ELSE b
Max(a, b) == IF a >= b THEN a ELSE b

Rat(n, d) == [num |-> n, den |-> d]
RatLess(a, b) == a.num * b.den < b.num * a.den
RatLeq(a, b) == a.num * b.den <= b.num * a.den

(***************************************************************************)
(* Bounds of the model.                                                    *)
(***************************************************************************)
MaxFrags == 2
MaxClock == 1
MaxSubmissions == 2
MaxStored == 11
MaxTicks == 3
MaxAnalyses == 2
MaxFetches == 2

(***************************************************************************)
(* JavaScript string primitives.                                           *)
(***************************************************************************)
UpperChars == "ABCDEFGHIJKLMNOPQRSTUVWXYZ"
LowerChars == "abcdefghijklmnopqrstuvwxyz"

CharAt(s, i) == SubSeq(s, i, i)

UpperSet == {CharAt(UpperChars, j) : j \in 1..Len(UpperChars)}
LowerMap ==
    [c \in UpperSet |->
        CharAt(LowerChars, CHOOSE j \in 1..Len(UpperChars) : CharAt(UpperChars, j) = c)]

LowerChar(c) == IF c \in UpperSet THEN LowerMap[c] ELSE c

\* String.prototype.toLowerCase: every character mapped, by halves
RECURSIVE toLowerCase(_)
toLowerCase(s) ==
    IF Len(s) = 0 THEN ""
    ELSE IF Len(s) = 1 THEN LowerChar(s)
    ELSE LET half == Len(s) \div 2
         IN  toLowerCase(SubSeq(s, 1, half)) \o toLowerCase(SubSeq(s, half + 1, Len(s)))

Swapped_includes(s, k) == \E i \in 1..(Len(k) - Len(s) + 1) : SubSeq(k, i, i + Len(s) - 1) = s
\* String.prototype.includes: a substring test
includes(s, k) == \E i \in 1..(Len(s) - Len(k) + 1) : SubSeq(s, i, i + Len(k) - 1) = k

IsSpace(c) == c = " "

\* the length of s.split(/\s+/): one more than the number of whitespace runs
SplitCount(s) ==
    1 + Cardinality({i \in 1..Len(s) :
                        IsSpace(CharAt(s, i)) /\ (i = 1 \/ ~IsSpace(CharAt(s, i - 1)))})

\* keywords.filter((word) => lower.includes(word)).length
MatchCount(keywords, lower) ==
    Cardinality({i \in 1..Len(keywords) : includes(lower, keywords[i])})

(***************************************************************************)
(* A content is the string text followed by pad further words " lorem".    *)
(* No lexicon phrase occurs in a run of " lorem" or across its border      *)
(* with text (none contains " l" or ends in a space), so includes() of the *)
(* whole content is includes() of text, and split() counts pad more words. *)
(***************************************************************************)
Content(text, pad) == [text |-> text, pad |-> pad]
WordCount(content) == SplitCount(toLowerCase(content.text)) + content.pad
ContentLength(content) == Len(content.text) + 6 * content.pad


(***************************************************************************)
(* generateComprehensiveFallbackAnalysis (analysis route).                 *)
(***************************************************************************)
analysisKeywords ==
    [bias |->
        [left |-> <<"progressive", "liberal", "social justice", "inequality",
                    "climate crisis", "systemic", "marginalized", "diversity", "inclusion">>,
         right |-> <<"conservative", "traditional", "free market", "law and order",
                     "family values", "patriotic", "constitutional", "freedom", "liberty">>],
     sentiment |->
        [positive |-> <<"excellent", "amazing", "breakthrough", "success", "wonderful",
                        "outstanding", "remarkable", "beneficial", "promising">>,
         negative |-> <<"terrible", "awful", "crisis", "disaster", "shocking",
                        "outrageous", "devastating", "alarming", "concerning">>],
     misinformation |-> <<"shocking truth", "they don't want you to know", "secret",
                          "conspiracy", "cover-up", "mainstream media won't tell you",
                          "hidden agenda">>,
     emotional |-> <<"urgent", "critical", "devastating", "shocking", "incredible",
                     "unbelievable", "must-see", "breaking">>]

\* Math.min((leftScore + rightScore) / 15, 1)
TimeSeeded_biasScore(leftScore, rightScore) ==
    Min(Frac(leftScore + rightScore + now, 15), Scale)
Comprehensive_biasScore(leftScore, rightScore) ==
    Min(Frac(leftScore + rightScore, 15), Scale)

\* (positiveScore - negativeScore) / Math.max(words.length / 100, 1)
sentimentOf(positiveScore, negativeScore, words) ==
    Rat((positiveScore - negativeScore) * 100, Max(words, 100))

\* Math.min(misinfoScore / 3, 1)
Uncapped_misinformationRisk(misinfoScore) == Frac(misinfoScore, 3)
Floored_misinformationRisk(misinfoScore) == (misinfoScore \div 3) * Scale
Comprehensive_misinformationRisk(misinfoScore) == Min(Frac(misinfoScore, 3), Scale)

\* Math.min(emotionalScore / 10, 1)
Comprehensive_emotionalManipulation(emotionalScore) == Min(Frac(emotionalScore, 10), Scale)

\* Math.max(-1, Math.min(1, sentiment))
clampSentiment(sentiment) ==
    IF RatLess(Rat(1, 1), sentiment) THEN Rat(1, 1)
    ELSE IF RatLess(sentiment, Rat(-1, 1)) THEN Rat(-1, 1)
    ELSE sentiment

\* sentiment > 0.2 ? "positive" : sentiment < -0.2 ? "negative" : "neutral"
emotionalTone(sentiment) ==
    IF RatLess(Rat(2, 10), sentiment) THEN "positive"
    ELSE IF RatLess(sentiment, Rat(-2, 10)) THEN "negative"
    ELSE "neutral"

\* Math.max(0.3, 1 - (biasScore + misinformationRisk) / 2)
credibilityOf(biasScore, misinformationRisk) ==
    Max(Frac(3, 10), Scale - (biasScore + misinformationRisk) \div 2)

\* new Date().toISOString(): the reading of the clock
toISOString(date) == date

generateComprehensiveFallbackAnalysis(content, date) ==
    LET lower == toLowerCase(content.text)
        words == WordCount(content)
        leftScore == MatchCount(analysisKeywords.bias.left, lower)
        rightScore == MatchCount(analysisKeywords.bias.right, lower)
        positiveScore == MatchCount(analysisKeywords.sentiment.positive, lower)
        negativeScore == MatchCount(analysisKeywords.sentiment.negative, lower)
        misinfoScore == MatchCount(analysisKeywords.misinformation, lower)
        emotionalScore == MatchCount(analysisKeywords.emotional, lower)
        biasScore == Comprehensive_biasScore(leftScore, rightScore)
        sentiment == sentimentOf(positiveScore, negativeScore, words)
        misinformationRisk == Comprehensive_misinformationRisk(misinfoScore)
        emotionalManipulation == Comprehensive_emotionalManipulation(emotionalScore)
    IN  [bias_analysis |->
            [overall_score |-> biasScore,
             political_leaning |-> IF leftScore > rightScore THEN "center-left"
                                   ELSE IF rightScore > leftScore THEN "center-right"
                                   ELSE "center",
             bias_indicators |-> << >>,
             language_bias |-> biasScore,
             source_bias |-> Frac(3, 10),
             framing_bias |-> (biasScore * 8) \div 10,
             selection_bias |-> (biasScore * 6) \div 10,
             confirmation_bias |-> (biasScore * 7) \div 10],
         misinformation_analysis |->
            [risk_score |-> misinformationRisk,
             fact_checks |-> << >>,
             red_flags |-> << >>,
             logical_fallacies |-> << >>,
             evidence_quality |-> Max(Frac(3, 10), Scale - misinformationRisk)],
         sentiment_analysis |->
            [overall_sentiment |-> clampSentiment(sentiment),
             emotional_tone |-> emotionalTone(sentiment),
             sentiment_by_section |-> << >>,
             key_emotional_phrases |-> << >>,
             emotional_manipulation |-> emotionalManipulation,
             subjectivity_score |-> (biasScore + emotionalManipulation) \div 2],
         narrative_analysis |->
            [primary_frame |-> "general",
             secondary_frames |-> << >>,
             narrative_patterns |-> << >>,
             actor_portrayal |-> << >>,
             perspective_diversity |-> Max(Frac(2, 10), Scale - biasScore),
             narrative_coherence |-> Frac(7, 10)],
         credibility_assessment |->
            [overall_score |-> credibilityOf(biasScore, misinformationRisk),
             source_quality |-> Frac(6, 10),
             evidence_quality |-> Frac(7, 10),
             logical_consistency |-> Frac(8, 10),
             transparency |-> Frac(6, 10),
             expertise_indicators |-> << >>],
         technical_analysis |->
            [readability_score |-> Frac(7, 10),
             complexity_level |-> IF words > 500 THEN "complex" ELSE "moderate",
             word_count |-> words,
             key_topics |-> <<"general">>,
             named_entities |-> << >>,
             language_register |-> "informal"],
         recommendations |->
            [verification_needed |-> << >>,
             alternative_sources |-> << >>,
             critical_questions |-> << >>,
             bias_mitigation |-> << >>],
         confidence |-> Frac(6, 10),
         processing_time |-> toISOString(date),
         model_version |-> "fallback-comprehensive"]

(***************************************************************************)
(* generateEnhancedFallbackAnalysis (storage route).                       *)
(***************************************************************************)
biasKeywords ==
    [left |-> <<"progressive", "liberal", "social justice", "inequality",
                "climate crisis", "systemic", "marginalized">>,
     right |-> <<"conservative", "traditional", "free market", "law and order",
                 "family values", "patriotic", "constitutional">>]

sentimentKeywords ==
    [positive |-> <<"excellent", "amazing", "breakthrough", "success", "wonderful",
                    "outstanding", "remarkable">>,
     negative |-> <<"terrible", "awful", "crisis", "disaster", "shocking",
                    "outrageous", "devastating", "alarming">>]

misinfoIndicators ==
    <<"shocking truth", "they don't want you to know", "secret", "conspiracy",
      "cover-up", "mainstream media won't tell you">>

\* Math.min((leftScore + rightScore) / 10, 1)
Enhanced_biasScore(leftScore, rightScore) ==
    Min(Frac(leftScore + rightScore, 10), Scale)

\* Math.min(misinfoScore / 5, 1)
Inverted_misinformationRisk(misinfoScore) == Max(Frac(5 - misinfoScore, 5), 0)
Enhanced_misinformationRisk(misinfoScore) == Min(Frac(misinfoScore, 5), Scale)

generateEnhancedFallbackAnalysis(content) ==
    LET lower == toLowerCase(content.text)
        words == WordCount(content)
        leftScore == MatchCount(biasKeywords.left, lower)
        rightScore == MatchCount(biasKeywords.right, lower)
        positiveScore == MatchCount(sentimentKeywords.positive, lower)
        negativeScore == MatchCount(sentimentKeywords.negative, lower)
        misinfoScore == MatchCount(misinfoIndicators, lower)
        biasScore == Enhanced_biasScore(leftScore, rightScore)
        sentiment == sentimentOf(positiveScore, negativeScore, words)
        misinformationRisk == Enhanced_misinformationRisk(misinfoScore)
    IN  [bias_score |-> biasScore,
         misinformation_risk |-> misinformationRisk,
         sentiment |-> clampSentiment(sentiment),
         credibility_score |-> credibilityOf(biasScore, misinformationRisk),
         fact_checks |-> << >>,
         narrative_analysis |->
            [primary_frame |-> IF leftScore > rightScore THEN "progressive"
                               ELSE IF rightScore > leftScore THEN "conservative"
                               ELSE "neutral",
             emotional_tone |-> emotionalTone(sentiment)],
         confidence |-> Frac(7, 10),
         processing_model |-> "fallback-enhanced"]

(***************************************************************************)
(* extractTopic (storage route).                                           *)
(***************************************************************************)
topicKeywords ==
    << [topic |-> "politics",
        keywords |-> <<"election", "government", "policy", "politician", "congress",
                       "senate", "president">>],
       [topic |-> "economy",
        keywords |-> <<"economy", "market", "inflation", "jobs", "unemployment", "gdp",
                       "recession", "growth">>],
       [topic |-> "healthcare",
        keywords |-> <<"health", "medical", "hospital", "doctor", "vaccine", "pandemic",
                       "disease">>],
       [topic |-> "technology",
        keywords |-> <<"tech", "ai", "artificial intelligence", "software", "digital",
                       "internet", "cyber">>],
       [topic |-> "climate",
        keywords |-> <<"climate", "environment", "global warming", "carbon", "renewable",
                       "pollution">>],
       [topic |-> "sports",
        keywords |-> <<"sports", "game", "team", "player", "championship", "league",
                       "tournament">>] >>

\* if (score > maxScore)
LaterWins_replaces(score, maxScore) == score >= maxScore
replaces(score, maxScore) == score > maxScore

RECURSIVE topicLoop(_, _, _, _)
topicLoop(i, contentLower, maxScore, detectedTopic) ==
    IF i > Len(topicKeywords) THEN detectedTopic
    ELSE LET score == MatchCount(topicKeywords[i].keywords, contentLower)
         IN  IF replaces(score, maxScore)
             THEN topicLoop(i + 1, contentLower, score, topicKeywords[i].topic)
             ELSE topicLoop(i + 1, contentLower, maxScore, detectedTopic)

extractTopic(content) == topicLoop(1, toLowerCase(content.text), 0, "general")

(***************************************************************************)
(* generateAdditionalInsights (analysis route).  A parsed JSON object is a *)
(* function whose domain is the set of keys it has: a key that is absent   *)
(* reads as undefined, and undefined compares false with every number.     *)
(***************************************************************************)
HasField(analysis, section, name) ==
    /\ section \in DOMAIN analysis
    /\ name \in DOMAIN analysis[section]

\* analysis.section?.name > bound  and  analysis.section?.name < bound
FieldAbove(analysis, section, name, bound) ==
    HasField(analysis, section, name) /\ analysis[section][name] > bound
FieldBelow(analysis, section, name, bound) ==
    HasField(analysis, section, name) /\ analysis[section][name] < bound

Insight(type, severity) == [type |-> type, severity |-> severity]

\* if (analysis.bias_analysis?.overall_score > 0.7)
NonStrict_biasRule(analysis) ==
    FieldAbove(analysis, "bias_analysis", "overall_score", Frac(7, 10) - 1)
biasRule(analysis) ==
    FieldAbove(analysis, "bias_analysis", "overall_score", Frac(7, 10))

generateAdditionalInsights(analysis) ==
    (IF biasRule(analysis)
     THEN <<Insight("bias_warning", "high")>> ELSE << >>)
    \o
    (IF FieldAbove(analysis, "misinformation_analysis", "risk_score", Frac(6, 10))
     THEN <<Insight("misinformation_alert", "high")>> ELSE << >>)
    \o
    (IF FieldBelow(analysis, "credibility_assessment", "overall_score", Frac(4, 10))
     THEN <<Insight("credibility_concern", "medium")>> ELSE << >>)
    \o
    (IF FieldBelow(analysis, "narrative_analysis", "perspective_diversity", Frac(3, 10))
     THEN <<Insight("perspective_limitation", "medium")>> ELSE << >>)


(***************************************************************************)
(* The analysis route: POST, storeComprehensiveAnalysis.                   *)
(*                                                                         *)
(* An optional value is << >> when it is null or absent and <<v>> when it   *)
(* is v.  A parsed JSON value is JsonNull or JsonObject(o), o a function   *)
(* on the keys the object has.                                             *)
(***************************************************************************)
JsonNull == [t |-> "null"]
JsonObject(o) == [t |-> "object", v |-> o]

EmptyObject == << >>

InRangeAnalysis ==
    [bias_analysis |-> [overall_score |-> Frac(75, 100), bias_indicators |-> <<"loaded language">>],
     misinformation_analysis |-> [risk_score |-> Frac(20, 100)],
     sentiment_analysis |-> [overall_sentiment |-> Rat(-3, 10)],
     narrative_analysis |-> [perspective_diversity |-> Frac(50, 100)],
     credibility_assessment |-> [overall_score |-> Frac(50, 100)],
     technical_analysis |-> [key_topics |-> <<"politics">>],
     confidence |-> Frac(9, 10)]

OutOfRangeAnalysis ==
    [bias_analysis |-> [overall_score |-> Frac(17, 10), bias_indicators |-> <<"loaded language">>],
     misinformation_analysis |-> [risk_score |-> Frac(20, 100)],
     sentiment_analysis |-> [overall_sentiment |-> Rat(-3, 1)],
     narrative_analysis |-> [perspective_diversity |-> Frac(50, 100)],
     credibility_assessment |-> [overall_score |-> Frac(50, 100)],
     technical_analysis |-> [key_topics |-> <<"politics">>],
     confidence |-> Frac(9, 10)]

\* Texts the external model may answer with.
ProseText == "Here is my analysis: the article is biased."
NullText == "null"
EmptyObjectText == "{}"
InRangeText ==
    "{\"bias_analysis\":{\"overall_score\":0.75,\"bias_indicators\":[\"loaded language\"]},\"misinformation_analysis\":{\"risk_score\":0.2},\"sentiment_analysis\":{\"overall_sentiment\":-0.3},\"narrative_analysis\":{\"perspective_diversity\":0.5},\"credibility_assessment\":{\"overall_score\":0.5},\"technical_analysis\":{\"key_topics\":[\"politics\"]},\"confidence\":0.9}"
OutOfRangeText ==
    "{\"bias_analysis\":{\"overall_score\":1.7,\"bias_indicators\":[\"loaded language\"]},\"misinformation_analysis\":{\"risk_score\":0.2},\"sentiment_analysis\":{\"overall_sentiment\":-3},\"narrative_analysis\":{\"perspective_diversity\":0.5},\"credibility_assessment\":{\"overall_score\":0.5},\"technical_analysis\":{\"key_topics\":[\"politics\"]},\"confidence\":0.9}"

AITexts == {ProseText, NullText, EmptyObjectText, InRangeText, OutOfRangeText}

\* JSON.parse(text): << >> when it throws a SyntaxError, <<value>> otherwise
JSONparse(text) ==
    CASE text = NullText -> <<JsonNull>>
      [] text = EmptyObjectText -> <<JsonObject(EmptyObject)>>
      [] text = InRangeText -> <<JsonObject(InRangeAnalysis)>>
      [] text = OutOfRangeText -> <<JsonObject(OutOfRangeAnalysis)>>
      [] OTHER -> << >>

\* if (!content): null, undefined and "" are falsy
Falsy(content) == content = << >> \/ content[1] = Content("", 0)

\* analysis.section?.name || 0
OrZero(analysis, section, name) ==
    IF HasField(analysis, section, name) THEN analysis[section][name] ELSE 0

\* content.substring(0, 100) + "..."
TitleOf(content) == SubSeq(content.text, 1, Min(100, Len(content.text))) \o "..."

\* the body storeComprehensiveAnalysis posts to /api/mongodb
StoreBody(content, analysis) ==
    [title |-> TitleOf(content),
     content |-> content,
     source |-> "AI Analysis",
     url |-> << >>,
     topic |-> IF HasField(analysis, "technical_analysis", "key_topics")
                  /\ Len(analysis.technical_analysis.key_topics) > 0
               THEN <<analysis.technical_analysis.key_topics[1]>>
               ELSE <<"general">>,
     bias_score |-> OrZero(analysis, "bias_analysis", "overall_score"),
     misinformation_risk |-> OrZero(analysis, "misinformation_analysis", "risk_score"),
     sentiment |-> IF HasField(analysis, "sentiment_analysis", "overall_sentiment")
                   THEN analysis.sentiment_analysis.overall_sentiment
                   ELSE Rat(0, 1),
     credibility_score |-> OrZero(analysis, "credibility_assessment", "overall_score"),
     fact_checks |-> << >>,
     narrative_analysis |-> IF "narrative_analysis" \in DOMAIN analysis
                            THEN analysis.narrative_analysis ELSE << >>,
     comprehensive_analysis |-> analysis]

\* return NextResponse.json({ error: "Content is required" }, { status: 400 })
Unmarked_BadRequestResponse ==
    [status |-> 200, body |-> [error |-> "Content is required"]]

BadRequestResponse ==
    [status |-> 400, body |-> [error |-> "Content is required"]]

\* the response of the try block: the parsed analysis, spread, with the insights
AnalysisResponse(content, analysis, date) ==
    [status |-> 200,
     body |-> [success |-> TRUE,
               analysis |-> ("additional_insights" :> generateAdditionalInsights(analysis))
                            @@ ("processing_timestamp" :> toISOString(date))
                            @@ analysis,
               metadata |-> [content_length |-> Len(content.text),
                             processing_model |-> "gemini-1.5-pro",
                             api_version |-> "2.0"]]]

\* the response of the outer catch block
FailureResponse ==
    [status |-> 500, body |-> [success |-> FALSE, error |-> "AI analysis failed"]]

\* the response of catch (parseError)
Rethrown_ParseErrorResponse(content, date) == FailureResponse
Mistagged_ParseErrorResponse(content, date) ==
    [status |-> 200,
     body |-> [success |-> TRUE,
               analysis |-> generateComprehensiveFallbackAnalysis(content, date),
               metadata |-> [content_length |-> Len(content.text),
                             processing_model |-> "gemini-1.5-pro",
                             api_version |-> "2.0",
                             note |-> "Fallback analysis used due to parsing error"]]]
ParseErrorResponse(content, date) ==
    [status |-> 200,
     body |-> [success |-> TRUE,
               analysis |-> generateComprehensiveFallbackAnalysis(content, date),
               metadata |-> [content_length |-> Len(content.text),
                             processing_model |-> "fallback-comprehensive",
                             api_version |-> "2.0",
                             note |-> "Fallback analysis used due to parsing error"]]]

AnalyzeText == "Shocking truth: a SECRET cover-up in the senate"

\* Request bodies: nothing, a url alone (the analyze page's URL tab), "", a text.
AnalyzeBodies ==
    { [content |-> << >>, url |-> << >>],
      [content |-> << >>, url |-> <<"https://news.example/a">>],
      [content |-> <<Content("", 0)>>, url |-> << >>],
      [content |-> <<Content(AnalyzeText, 0)>>, url |-> << >>] }

\* no GET request yet
IdleListing == [pc |-> "idle"]

\* no stream requested yet
IdleStream == [pc |-> "idle"]

\* the analyze page as useState initialises it
InitialPage ==
    [content |-> "", url |-> "", activeTab |-> "text", isAnalyzing |-> FALSE, analysisComplete |-> FALSE,
     analysisProgress |-> 0, analysisResults |-> << >>,
     request |-> "none", interval |-> FALSE, timeout |-> FALSE, run |-> 0]

\* the dashboard page before it is mounted
DataSets == {"statistics", "liveFeed", "systemStatus"}
InitialDashboard ==
    [mounted |-> FALSE, started |-> 0,
     data |-> [k \in DataSets |-> 0],
     isLoading |-> [k \in DataSets |-> TRUE],
     error |-> [k \in DataSets |-> FALSE],
     inFlight |-> [k \in DataSets |-> {}],
     succeeded |-> [k \in DataSets |-> {}]]

IdleAnalyze ==
    [pc |-> "idle", body |-> [content |-> << >>, url |-> << >>], ai |-> "none",
     calls |-> 0, analysis |-> << >>, sent |-> << >>, resp |-> << >>]

\* a storage request: its body, the answer of the cloud service, the article it
\* builds, its response, whether the database refused its connection, the sizes
\* of the two collections when it was submitted and when it was answered, and
\* the number of articles stored when its findOne ran
Sizes == [articles |-> Len(articles), realtime_updates |-> Len(realtime_updates)]

IdleStore ==
    [pc |-> "idle", body |-> << >>, cloud |-> << >>, article |-> << >>, resp |-> << >>,
     refused |-> FALSE, seen |-> 0,
     before |-> [articles |-> 0, realtime_updates |-> 0],
     after |-> [articles |-> 0, realtime_updates |-> 0]]

Submitted(body) ==
    [pc |-> "connect", body |-> <<body>>, cloud |-> << >>, article |-> << >>, resp |-> << >>,
     refused |-> FALSE, seen |-> 0, before |-> Sizes, after |-> Sizes]

Slots == 0..MaxSubmissions
NoStoreActive == \A p \in Slots : sreq[p].pc \in {"idle", "done"}
NoAnalyzeActive == areq.pc \in {"idle", "done"}

\* const { content, options = {} } = await request.json(); if (!content) ...
AnalyzeRequest ==
    /\ areq.pc = "idle"
    /\ NoStoreActive
    /\ \E body \in AnalyzeBodies :
          areq' = IF Falsy(body.content)
                  THEN [areq EXCEPT !.pc = "done", !.body = body,
                                    !.resp = <<BadRequestResponse>>]
                  ELSE [areq EXCEPT !.pc = "generate", !.body = body]
    /\ UNCHANGED <<fnVars, uiVars, sreq, articles, realtime_updates, clientConnected>>

Retrying_AnalyzeGenerateRejects ==
    /\ areq.pc = "generate"
    /\ areq' = IF areq.calls < 2
               THEN [areq EXCEPT !.calls = @ + 1]
               ELSE [areq EXCEPT !.pc = "done", !.ai = "rejected", !.calls = @ + 1,
                                 !.resp = <<FailureResponse>>]
    /\ UNCHANGED <<fnVars, uiVars, sreq, articles, realtime_updates, clientConnected>>

\* await model.generateContent(prompt) rejects: the outer catch answers
AnalyzeGenerateRejects ==
    /\ areq.pc = "generate"
    /\ areq' = [areq EXCEPT !.pc = "done", !.ai = "rejected", !.calls = @ + 1,
                            !.resp = <<FailureResponse>>]
    /\ UNCHANGED <<fnVars, uiVars, sreq, articles, realtime_updates, clientConnected>>

\* generateContent resolves with a text; JSON.parse(text) throws or returns
AnalyzeGenerate ==
    /\ areq.pc = "generate"
    /\ \E text \in AITexts :
          areq' = IF JSONparse(text) = << >>
                  THEN [areq EXCEPT !.pc = "done", !.ai = "unparsable", !.calls = @ + 1,
                                    !.resp = <<ParseErrorResponse(areq.body.content[1], now)>>]
                  ELSE [areq EXCEPT !.pc = "store", !.ai = "parsed", !.calls = @ + 1,
                                    !.analysis = JSONparse(text)]
    /\ UNCHANGED <<fnVars, uiVars, sreq, articles, realtime_updates, clientConnected>>

\* storeComprehensiveAnalysis: reading a key of null throws inside its try, and
\* so does a fetch that cannot reach the storage route; both are only logged
AnalyzeStoreThrows ==
    /\ areq.pc = "store"
    /\ areq' = IF areq.analysis[1] = JsonNull
               THEN [areq EXCEPT !.pc = "respond"]
               ELSE [areq EXCEPT !.pc = "respond",
                        !.sent = <<StoreBody(areq.body.content[1], areq.analysis[1].v)>>]
    /\ UNCHANGED <<fnVars, uiVars, sreq, articles, realtime_updates, clientConnected>>

\* storeComprehensiveAnalysis: the fetch reaches the storage route
AnalyzeStore ==
    /\ areq.pc = "store"
    /\ areq.analysis[1] # JsonNull
    /\ NoStoreActive
    /\ sreq[0].pc = "idle"
    /\ LET body == StoreBody(areq.body.content[1], areq.analysis[1].v)
       IN  /\ areq' = [areq EXCEPT !.pc = "awaitStore", !.sent = <<body>>]
           /\ sreq' = [sreq EXCEPT ![0] = Submitted(body)]
    /\ UNCHANGED <<fnVars, uiVars, articles, realtime_updates, clientConnected>>

\* the storage route has answered: response.ok is only logged
AnalyzeStoreReturns ==
    /\ areq.pc = "awaitStore"
    /\ sreq[0].pc = "done"
    /\ areq' = [areq EXCEPT !.pc = "respond"]
    /\ UNCHANGED <<fnVars, uiVars, sreq, articles, realtime_updates, clientConnected>>

\* generateAdditionalInsights and the response; reading a key of null throws,
\* which the catch (parseError) block answers
AnalyzeRespond ==
    /\ areq.pc = "respond"
    /\ areq' = [areq EXCEPT !.pc = "done",
                  !.resp = IF areq.analysis[1] = JsonNull
                           THEN <<ParseErrorResponse(areq.body.content[1], now)>>
                           ELSE <<AnalysisResponse(areq.body.content[1], areq.analysis[1].v, now)>>]
    /\ UNCHANGED <<fnVars, uiVars, sreq, articles, realtime_updates, clientConnected>>

(***************************************************************************)
(* The storage route: POST, analyzeContentWithGoogleAI, generateEmbedding, *)
(* triggerRealTimeUpdate.                                                  *)
(***************************************************************************)
\* What the analyze endpoint of the cloud service may answer: predictions[0].
CloudFull ==
    [bias_score |-> Frac(40, 100), misinformation_risk |-> Frac(10, 100),
     sentiment |-> Rat(2, 10), credibility_score |-> Frac(80, 100),
     confidence |-> Frac(90, 100)]

CloudNoBias ==
    [misinformation_risk |-> Frac(10, 100), sentiment |-> Rat(2, 10),
     credibility_score |-> Frac(80, 100), confidence |-> Frac(90, 100)]

CloudOutOfRange ==
    [bias_score |-> Frac(17, 10), misinformation_risk |-> Frac(10, 100),
     sentiment |-> Rat(-3, 1), credibility_score |-> Frac(80, 100),
     confidence |-> Frac(90, 100)]

\* the fetch rejects, answers with a non-success status, or answers ok
CloudAnswers ==
    { [outcome |-> "rejects"], [outcome |-> "not ok"],
      [outcome |-> "ok", prediction |-> CloudFull],
      [outcome |-> "ok", prediction |-> CloudNoBias],
      [outcome |-> "ok", prediction |-> CloudOutOfRange] }

\* values Math.random() may return, one draw for each field that needs one
RandomDraws == {Frac(1, 4), Frac(3, 4)}
RandomFields == {"bias_score", "misinformation_risk", "sentiment", "credibility_score", "confidence"}

\* a missing number and the number 0 are falsy
FalsyNumber(analysis, name) ==
    \/ name \notin DOMAIN analysis
    \/ IF name = "sentiment" THEN analysis[name].num = 0 ELSE analysis[name] = 0

\* the fields whose `||` reaches its Math.random() operand
DrawsNeeded(answer) ==
    IF answer.outcome = "ok"
    THEN {name \in RandomFields : FalsyNumber(answer.prediction, name)}
    ELSE {}

\* analysis.name || fallback
OrElse(analysis, name, fallback) ==
    IF FalsyNumber(analysis, name) THEN fallback ELSE analysis[name]

Untagged_analyzeContentWithGoogleAI(content, answer, random) ==
    ("processing_model" :> "google-cloud-ai") @@ generateEnhancedFallbackAnalysis(content)

analyzeContentWithGoogleAI(content, answer, random) ==
    IF answer.outcome = "ok"
    THEN LET analysis == answer.prediction
         IN  [bias_score |-> OrElse(analysis, "bias_score", (random["bias_score"] * 8) \div 10),
              misinformation_risk |->
                  OrElse(analysis, "misinformation_risk", (random["misinformation_risk"] * 6) \div 10),
              sentiment |->
                  OrElse(analysis, "sentiment", Rat(2 * random["sentiment"] - Scale, Scale)),
              credibility_score |->
                  OrElse(analysis, "credibility_score",
                         Frac(7, 10) + (random["credibility_score"] * 3) \div 10),
              fact_checks |-> << >>,
              narrative_analysis |-> << >>,
              confidence |->
                  OrElse(analysis, "confidence",
                         Frac(85, 100) + (random["confidence"] * 15) \div 100),
              processing_model |-> "google-cloud-ai"]
    ELSE generateEnhancedFallbackAnalysis(content)

\* The embedding is a vector no claim reads; its value is left abstract.
generateEmbedding(content) == "embedding"

\* topic || extractTopic(content), ...analysis
ArticleOf(body, analysis, date) ==
    [title |-> body.title,
     content |-> body.content,
     source |-> body.source,
     url |-> body.url,
     topic |-> IF body.topic # << >> THEN body.topic[1] ELSE extractTopic(body.content),
     embedding |-> generateEmbedding(body.content),
     timestamp |-> date,
     processed_at |-> date,
     processing_version |-> "2.0"] @@ analysis

\* collection.findOne({ url }): the first article whose url equals the query's;
\* a null url in the query matches an article whose url is null
Blind_findOne(url) == << >>
findOne(url) ==
    LET hits == {i \in 1..Len(articles) : articles[i].url = url}
    IN  IF hits = {} THEN << >>
        ELSE <<articles[CHOOSE i \in hits : \A j \in hits : i <= j]>>

StoreText == "Election results: the senate votes on the economy"

UrlChoices == {<< >>, <<"https://news.example/a">>, <<"https://news.example/b">>}

ClientBodies ==
    {[title |-> "Election results", content |-> Content(StoreText, 0),
      source |-> "Example News", url |-> u, topic |-> << >>] : u \in UrlChoices}

\* a client posts an article to the storage route
ClientSubmit(p) ==
    /\ p > 0
    /\ sreq[p].pc = "idle"
    /\ \A q \in 1..(p - 1) : sreq[q].pc # "idle"
    /\ NoStoreActive
    /\ NoAnalyzeActive
    /\ \E body \in ClientBodies : sreq' = [sreq EXCEPT ![p] = Submitted(body)]
    /\ UNCHANGED <<fnVars, uiVars, areq, articles, realtime_updates, clientConnected>>

\* await client.connect() throws: catch answers 500, finally closes the client
StoreConnectFails(p) ==
    /\ sreq[p].pc = "connect"
    /\ sreq' = [sreq EXCEPT ![p].pc = "done", ![p].refused = TRUE, ![p].after = Sizes,
                  ![p].resp = <<[status |-> 500,
                                 body |-> [success |-> FALSE,
                                           error |-> "Failed to store article"]]>>]
    /\ clientConnected' = FALSE
    /\ UNCHANGED <<fnVars, uiVars, areq, articles, realtime_updates>>

\* The answers of the cloud service a request may meet: every one for the request
\* the analysis route sends, a complete prediction for a client's.
CloudAnswersFor(p) ==
    IF p = 0 THEN CloudAnswers
    ELSE {[outcome |-> "ok", prediction |-> CloudFull]}

\* await client.connect(); analyzeContentWithGoogleAI; generateEmbedding; article
StoreConnect(p) ==
    /\ sreq[p].pc = "connect"
    /\ LET body == sreq[p].body[1]
           blank == ArticleOf(body, << >>, now)
       IN  \E answer \in CloudAnswersFor(p) :
           \E random \in [DrawsNeeded(answer) -> RandomDraws] :
              sreq' = [sreq EXCEPT
                          ![p].pc = "findOne",
                          ![p].cloud = <<answer>>,
                          ![p].article =
                              <<blank @@ analyzeContentWithGoogleAI(body.content, answer, random)>>]
    /\ clientConnected' = TRUE
    /\ UNCHANGED <<fnVars, uiVars, areq, articles, realtime_updates>>

AlreadyExists(existing) ==
    [status |-> 200,
     body |-> [success |-> FALSE, error |-> "Article already exists", id |-> existing._id]]

Unchecked_StoreFindOne(p) ==
    /\ sreq[p].pc = "findOne"
    /\ sreq' = [sreq EXCEPT ![p].pc = "insertOne", ![p].seen = Len(articles)]
    /\ clientConnected' = TRUE
    /\ UNCHANGED <<fnVars, uiVars, areq, articles, realtime_updates>>

\* const existing = await collection.findOne({ url }); if (existing) return ...
\* and then finally: await client.close()
StoreFindOne(p) ==
    /\ sreq[p].pc = "findOne"
    /\ LET existing == findOne(sreq[p].body[1].url)
       IN  IF existing # << >>
           THEN /\ sreq' = [sreq EXCEPT ![p].pc = "done", ![p].after = Sizes,
                                        ![p].seen = Len(articles),
                                        ![p].resp = <<AlreadyExists(existing[1])>>]
                /\ clientConnected' = FALSE
           ELSE /\ sreq' = [sreq EXCEPT ![p].pc = "insertOne", ![p].seen = Len(articles)]
                /\ clientConnected' = TRUE
    /\ UNCHANGED <<fnVars, uiVars, areq, articles, realtime_updates>>

\* const result = await collection.insertOne(article): the driver sets _id
StoreInsertOne(p) ==
    /\ sreq[p].pc = "insertOne"
    /\ LET stored == ("_id" :> (Len(articles) + 1)) @@ sreq[p].article[1]
       IN  /\ articles' = Append(articles, stored)
           /\ sreq' = [sreq EXCEPT ![p].pc = "trigger", ![p].article = <<stored>>]
    /\ clientConnected' = TRUE
    /\ UNCHANGED <<fnVars, uiVars, areq, realtime_updates>>

\* await triggerRealTimeUpdate({ type: "article_processed", article })
triggerRealTimeUpdate(p) ==
    /\ sreq[p].pc = "trigger"
    /\ clientConnected' = TRUE
    /\ realtime_updates' =
          Append(realtime_updates,
                 [type |-> "article_processed", article |-> sreq[p].article[1]._id,
                  timestamp |-> now, processed |-> FALSE])
    /\ sreq' = [sreq EXCEPT ![p].pc = "respond"]
    /\ UNCHANGED <<fnVars, uiVars, areq, articles>>

\* return NextResponse.json({ success: true, id, analysis }); finally close
StoreRespond(p) ==
    /\ sreq[p].pc = "respond"
    /\ sreq' = [sreq EXCEPT ![p].pc = "done", ![p].after = Sizes,
                  ![p].resp = <<[status |-> 200,
                                 body |-> [success |-> TRUE,
                                           id |-> sreq[p].article[1]._id]]>>]
    /\ clientConnected' = FALSE
    /\ UNCHANGED <<fnVars, uiVars, areq, articles, realtime_updates>>

(***************************************************************************)
(* SpecSeq: one analysis request and MaxSubmissions client submissions,    *)
(* one after the other: a request arrives when no other is being handled.  *)
(***************************************************************************)
InitSeq ==
    /\ input = [kind |-> "none"]
    /\ now = 0
    /\ ret1 = [fn |-> "none"]
    /\ ret2 = [fn |-> "none"]
    /\ areq = IdleAnalyze
    /\ sreq = [p \in Slots |-> IdleStore]
    /\ articles = << >>
    /\ realtime_updates = << >>
    /\ clientConnected = FALSE
    /\ listing = IdleListing
    /\ sse = IdleStream
    /\ page = InitialPage
    /\ dash = InitialDashboard

NextSeq ==
    \/ AnalyzeRequest
    \/ AnalyzeGenerateRejects
    \/ AnalyzeGenerate
    \/ AnalyzeStoreThrows
    \/ AnalyzeStore
    \/ AnalyzeStoreReturns
    \/ AnalyzeRespond
    \/ \E p \in Slots :
          \/ ClientSubmit(p)
          \/ StoreConnectFails(p)
          \/ StoreConnect(p)
          \/ StoreFindOne(p)
          \/ StoreInsertOne(p)
          \/ triggerRealTimeUpdate(p)
          \/ StoreRespond(p)

SpecSeq == InitSeq /\ [][NextSeq]_vars

(***************************************************************************)
(* SpecConc: client submissions to the storage route that overlap.  Every  *)
(* await of POST is a point where another request's steps may run; the     *)
(* requests share the module's one MongoClient.                            *)
(***************************************************************************)
\* the bodies of overlapping submissions: each carries a url
OverlapBodies == {body \in ClientBodies : body.url # << >>}

\* a client posts an article while other requests may be in flight
OverlappingSubmit(p) ==
    /\ p > 0
    /\ sreq[p].pc = "idle"
    /\ \A q \in 1..(p - 1) : sreq[q].pc # "idle"
    /\ \E body \in OverlapBodies : sreq' = [sreq EXCEPT ![p] = Submitted(body)]
    /\ UNCHANGED <<fnVars, uiVars, areq, articles, realtime_updates, clientConnected>>

\* findOne or insertOne on the client after another request's finally block has
\* closed it: the driver may reject the operation (the catch answers 500 and the
\* finally closes again) or reconnect and run it (StoreFindOne, StoreInsertOne)
StoreOperationRejected(p) ==
    /\ sreq[p].pc \in {"findOne", "insertOne"}
    /\ ~clientConnected
    /\ sreq' = [sreq EXCEPT ![p].pc = "done", ![p].after = Sizes,
                  ![p].resp = <<[status |-> 500,
                                 body |-> [success |-> FALSE,
                                           error |-> "Failed to store article"]]>>]
    /\ clientConnected' = FALSE
    /\ UNCHANGED <<fnVars, uiVars, areq, articles, realtime_updates>>

InitConc == InitSeq

NextConc ==
    \E p \in Slots :
        \/ OverlappingSubmit(p)
        \/ StoreConnectFails(p)
        \/ StoreConnect(p)
        \/ StoreFindOne(p)
        \/ StoreOperationRejected(p)
        \/ StoreInsertOne(p)
        \/ triggerRealTimeUpdate(p)
        \/ StoreRespond(p)

SpecConc == InitConc /\ [][NextConc]_vars

(***************************************************************************)
(* SpecList: the storage route's GET without a similarity query, on a      *)
(* collection of up to MaxStored articles.                                 *)
(***************************************************************************)
ListedSources == {"Example News", "Daily Wire"}
ListedTopics == <<"politics", "economy", "general">>

\* An article is stored, as POST stores it, before the listing is requested.
\* Successive inserts read a later new Date(): a later article is newer.
SeedArticle ==
    /\ listing.pc = "idle"
    /\ Len(articles) < MaxStored
    /\ \E source \in ListedSources :
          articles' = Append(articles,
                             [_id |-> Len(articles) + 1,
                              source |-> source,
                              topic |-> ListedTopics[(Len(articles) % 3) + 1],
                              timestamp |-> Len(articles) + 1])
    /\ UNCHANGED <<fnVars, areq, sreq, realtime_updates, clientConnected, listing, sse, page, dash>>

\* searchParams.get(name): << >> when the parameter is absent
LimitParams == {<< >>, <<"0">>, <<"1">>, <<"2">>}
SourceParams == {<< >>} \cup {<<x>> : x \in ListedSources}
TopicParams == {<< >>, <<"politics">>}

\* Number.parseInt of the strings that reach it
parseInt(str) ==
    CASE str = "0" -> 0
      [] str = "1" -> 1
      [] str = "2" -> 2
      [] str = "10" -> 10

\* Number.parseInt(searchParams.get("limit") || "10")
LimitOf(param) == parseInt(IF param = << >> THEN "10" ELSE param[1])

\* if (source) matchStage.source = source; if (topic) matchStage.topic = topic
matchStage(source, topic) ==
    (IF source = << >> THEN << >> ELSE "source" :> source[1])
    @@ (IF topic = << >> THEN << >> ELSE "topic" :> topic[1])

\* collection.find(matchStage)
find(stage) ==
    {i \in 1..Len(articles) : \A k \in DOMAIN stage : articles[i][k] = stage[k]}

\* .sort({ timestamp: -1 })
RECURSIVE sortByTimestampDescending(_)
sortByTimestampDescending(ids) ==
    IF ids = {} THEN << >>
    ELSE LET top == CHOOSE i \in ids : \A j \in ids : articles[j].timestamp <= articles[i].timestamp
         IN  <<articles[top]>> \o sortByTimestampDescending(ids \ {top})

\* .limit(n): the database takes a limit of 0 as no limit
cursorLimit(results, n) ==
    IF n = 0 THEN results ELSE SubSeq(results, 1, Min(n, Len(results)))

\* GET: connect, find, sort, limit, toArray, respond; finally close
ListGET ==
    /\ listing.pc = "idle"
    /\ \E limit \in LimitParams, source \in SourceParams, topic \in TopicParams :
          LET results == cursorLimit(sortByTimestampDescending(find(matchStage(source, topic))),
                                     LimitOf(limit))
          IN  listing' = [pc |-> "done", limit |-> limit, source |-> source, topic |-> topic,
                          resp |-> [status |-> 200,
                                    body |-> [success |-> TRUE, data |-> results,
                                              count |-> Len(results), query |-> "all",
                                              filters |-> [source |-> source, topic |-> topic]]]]
    /\ clientConnected' = FALSE
    /\ UNCHANGED <<fnVars, areq, sreq, articles, realtime_updates, sse, page, dash>>

\* await client.connect() throws: the catch answers 500, finally closes
ListConnectFails ==
    /\ listing.pc = "idle"
    /\ \E limit \in LimitParams, source \in SourceParams, topic \in TopicParams :
          listing' = [pc |-> "done", limit |-> limit, source |-> source, topic |-> topic,
                      resp |-> [status |-> 500,
                                body |-> [success |-> FALSE,
                                          error |-> "Database connection failed"]]]
    /\ clientConnected' = FALSE
    /\ UNCHANGED <<fnVars, areq, sreq, articles, realtime_updates, sse, page, dash>>

InitList == InitSeq

NextList ==
    \/ SeedArticle
    \/ ListGET
    \/ ListConnectFails

SpecList == InitList /\ [][NextList]_vars

(***************************************************************************)
(* SpecStream: the server-sent-events route.  start() enqueues the         *)
(* connection message and sets a 3-second interval; each firing starts an  *)
(* async callback that awaits three database reads and then enqueues; the  *)
(* abort listener clears the interval and closes the controller.           *)
(***************************************************************************)
Ticks == 1..MaxTicks

Message(type, tick) == [type |-> type, tick |-> tick]

\* new ReadableStream({ start(controller) { ... } }) and the response
StreamGET ==
    /\ sse.pc = "idle"
    /\ sse' = [pc |-> "open", interval |-> TRUE,
               stream |-> <<Message("connection", 0)>>,
               ticks |-> [t \in Ticks |-> [pc |-> "unfired"]],
               late |-> 0]
    /\ UNCHANGED <<fnVars, routeVars, listing, page, dash>>

\* the interval fires: the callback starts and awaits Promise.all of the reads
TimerFires(t) ==
    /\ sse.pc # "idle"
    /\ sse.interval
    /\ sse.ticks[t].pc = "unfired"
    /\ \A u \in 1..(t - 1) : sse.ticks[u].pc # "unfired"
    /\ sse' = [sse EXCEPT !.ticks[t] = [pc |-> "awaiting"]]
    /\ UNCHANGED <<fnVars, routeVars, listing, page, dash>>

\* What the three reads resolve to.  getLatestArticles, getSystemStats and
\* getActiveAlerts catch their own errors and return [] or {}, so Promise.all
\* never rejects: a failed read is an empty alerts list.
ReadOutcomes ==
    { [database |-> "ok", alerts |-> 0], [database |-> "ok", alerts |-> 2],
      [database |-> "failed", alerts |-> 0] }

\* controller.enqueue of the update and, if (alerts.length > 0), of the alert
Enqueued(t, reads) ==
    <<Message("comprehensive_update", t)>>
    \o (IF reads.alerts > 0 THEN <<Message("alert", t)>> ELSE << >>)

\* The reads resolve and the callback runs to its end.  On a closed controller
\* enqueue throws: the try block's enqueue of the update throws, the catch
\* block's enqueue of the error throws too, and the callback's promise rejects.
TickCompletes(t) ==
    /\ sse.pc # "idle"
    /\ sse.ticks[t].pc = "awaiting"
    /\ \E reads \in ReadOutcomes :
          sse' = IF sse.pc = "open"
                 THEN [sse EXCEPT !.ticks[t] = [pc |-> "done", reads |-> reads],
                                  !.stream = @ \o Enqueued(t, reads)]
                 ELSE [sse EXCEPT !.ticks[t] = [pc |-> "threw", reads |-> reads],
                                  !.late = @ + 2]
    /\ UNCHANGED <<fnVars, routeVars, listing, page, dash>>

\* request.signal "abort": clearInterval(interval); controller.close()
StreamAbort ==
    /\ sse.pc = "open"
    /\ sse' = [sse EXCEPT !.pc = "closed", !.interval = FALSE]
    /\ UNCHANGED <<fnVars, routeVars, listing, page, dash>>

InitStream == InitSeq

NextStream ==
    \/ StreamGET
    \/ StreamAbort
    \/ \E t \in Ticks :
          \/ TimerFires(t)
          \/ TickCompletes(t)

SpecStream == InitStream /\ [][NextStream]_vars

(***************************************************************************)
(* SpecPage: the analyze page.  page.request is the fetch of handleAnalyze,*)
(* page.interval and page.timeout its progress timer and its completion    *)
(* timer, page.run the number of analyses started; analysisResults holds   *)
(* << >> for null or <<n>> for the response of analysis n.                 *)
(***************************************************************************)
\* the Textarea, disabled={isAnalyzing}
SetContent ==
    /\ ~page.isAnalyzing
    /\ \E text \in {"", "Some article text"} :
          /\ text # page.content
          /\ page' = [page EXCEPT !.content = text]
    /\ UNCHANGED <<fnVars, routeVars, listing, sse, dash>>

\* the url Input, disabled={isAnalyzing}
SetUrl ==
    /\ ~page.isAnalyzing
    /\ \E text \in {"", "https://example.com/article"} :
          /\ text # page.url
          /\ page' = [page EXCEPT !.url = text]
    /\ UNCHANGED <<fnVars, routeVars, listing, sse, dash>>

\* the Tabs, onValueChange={setActiveTab}
SetActiveTab ==
    /\ \E tab \in {"text", "url"} :
          /\ tab # page.activeTab
          /\ page' = [page EXCEPT !.activeTab = tab]
    /\ UNCHANGED <<fnVars, routeVars, listing, sse, dash>>

\* the input of the active tab is empty
EmptyInput ==
    \/ page.activeTab = "text" /\ page.content = ""
    \/ page.activeTab = "url" /\ page.url = ""

\* The Analyze button, disabled while isAnalyzing or while the input of the
\* active tab is empty; handleAnalyze up to its await fetch.
handleAnalyze ==
    /\ ~page.isAnalyzing
    /\ ~EmptyInput
    /\ page.run < MaxAnalyses
    /\ page' = [page EXCEPT !.isAnalyzing = TRUE, !.analysisComplete = FALSE,
                            !.analysisProgress = 0, !.request = "inFlight", !.run = @ + 1]
    /\ UNCHANGED <<fnVars, routeVars, listing, sse, dash>>

\* fetch rejects or !response.ok: the catch block
RequestFails ==
    /\ page.request = "inFlight"
    /\ page' = [page EXCEPT !.request = "none", !.isAnalyzing = FALSE,
                            !.analysisProgress = 0]
    /\ UNCHANGED <<fnVars, routeVars, listing, sse, dash>>

\* the response arrives: setAnalysisResults(data) and setInterval(..., 600)
RequestSucceeds ==
    /\ page.request = "inFlight"
    /\ page' = [page EXCEPT !.request = "none", !.analysisResults = <<page.run>>,
                            !.interval = TRUE]
    /\ UNCHANGED <<fnVars, routeVars, listing, sse, dash>>

\* values of Math.random() * 15
ProgressSteps == {6, 14}

\* The interval fires: prev + Math.random() * 15; at 100 or more it clears the
\* interval and sets the 500 ms timeout.
ProgressTick ==
    /\ page.interval
    /\ \E step \in ProgressSteps :
          LET newProgress == page.analysisProgress + step
          IN  page' = IF newProgress >= 100
                      THEN [page EXCEPT !.analysisProgress = 100, !.interval = FALSE,
                                        !.timeout = TRUE]
                      ELSE [page EXCEPT !.analysisProgress = newProgress]
    /\ UNCHANGED <<fnVars, routeVars, listing, sse, dash>>

Stuck_CompletionTimeout ==
    /\ page.timeout
    /\ page' = [page EXCEPT !.timeout = FALSE, !.analysisComplete = TRUE]
    /\ UNCHANGED <<fnVars, routeVars, listing, sse, dash>>

\* the timeout fires: setIsAnalyzing(false); setAnalysisComplete(true)
CompletionTimeout ==
    /\ page.timeout
    /\ page' = [page EXCEPT !.timeout = FALSE, !.isAnalyzing = FALSE,
                            !.analysisComplete = TRUE]
    /\ UNCHANGED <<fnVars, routeVars, listing, sse, dash>>

\* the Reset button, disabled={isAnalyzing}
handleReset ==
    /\ ~page.isAnalyzing
    /\ page' = [page EXCEPT !.content = "", !.url = "", !.analysisComplete = FALSE,
                            !.analysisProgress = 0, !.analysisResults = << >>]
    /\ UNCHANGED <<fnVars, routeVars, listing, sse, dash>>

InitPage == InitSeq

NextPage ==
    \/ SetContent
    \/ SetUrl
    \/ SetActiveTab
    \/ handleAnalyze
    \/ RequestFails
    \/ RequestSucceeds
    \/ ProgressTick
    \/ CompletionTimeout
    \/ handleReset

SpecPage == InitPage /\ [][NextPage]_vars

(***************************************************************************)
(* SpecDash: the dashboard page.  dash.started counts the rounds of fetches*)
(* started (the first by the mount effect, the others by handleRefresh);   *)
(* fetch n of a data set answers with data n.  data 0 is the initial null  *)
(* or empty value; inFlight holds the fetches awaiting their response and  *)
(* succeeded those whose response was stored.                              *)
(***************************************************************************)
\* fetchStats(); fetchLiveFeed(); fetchSystemStatus(): each sets its loading
\* flag, clears its error and awaits its fetch
StartFetches(d, n) ==
    [d EXCEPT !.started = n,
              !.isLoading = [k \in DataSets |-> TRUE],
              !.error = [k \in DataSets |-> FALSE],
              !.inFlight = [k \in DataSets |-> d.inFlight[k] \cup {n}]]

\* the effect that runs once on mount
Mount ==
    /\ ~dash.mounted
    /\ dash' = StartFetches([dash EXCEPT !.mounted = TRUE], 1)
    /\ UNCHANGED <<fnVars, routeVars, listing, sse, page>>

\* the Refresh button, which is never disabled
handleRefresh ==
    /\ dash.mounted
    /\ dash.started < MaxFetches
    /\ dash' = StartFetches(dash, dash.started + 1)
    /\ UNCHANGED <<fnVars, routeVars, listing, sse, page>>

\* a response arrives and is ok: set the data, then finally clear the flag
FetchSucceeds(k, n) ==
    /\ n \in dash.inFlight[k]
    /\ dash' = [dash EXCEPT !.data[k] = n,
                            !.isLoading[k] = FALSE,
                            !.inFlight[k] = @ \ {n},
                            !.succeeded[k] = @ \cup {n}]
    /\ UNCHANGED <<fnVars, routeVars, listing, sse, page>>

\* fetch rejects or !response.ok: set the error, then finally clear the flag
FetchFails(k, n) ==
    /\ n \in dash.inFlight[k]
    /\ dash' = [dash EXCEPT !.error[k] = TRUE,
                            !.isLoading[k] = FALSE,
                            !.inFlight[k] = @ \ {n}]
    /\ UNCHANGED <<fnVars, routeVars, listing, sse, page>>

InitDash == InitSeq

NextDash ==
    \/ Mount
    \/ handleRefresh
    \/ \E k \in DataSets, n \in 1..MaxFetches : FetchSucceeds(k, n)
    \/ \E k \in DataSets, n \in 1..MaxFetches : FetchFails(k, n)

SpecDash == InitDash /\ [][NextDash]_vars

(***************************************************************************)
(* The inputs the pure functions are applied to.                           *)
(***************************************************************************)

\* Pieces of text; a content joins up to MaxFrags of them with single spaces.
Fragments ==
    { "Progressive liberal inequality systemic marginalized diversity inclusion social justice climate crisis",
      "conservative traditional free market law and order family values patriotic constitutional freedom liberty",
      "SECRET conspiracy cover-up",
      "shocking truth they don't want you to know",
      "amazing breakthrough election senate congress",
      "said economy jobs inflation" }

RECURSIVE TextsUpTo(_)
TextsUpTo(n) ==
    IF n = 0 THEN {""}
    ELSE LET prev == TextsUpTo(n - 1)
         IN  prev \cup {IF t = "" THEN f ELSE t \o " " \o f : t \in prev, f \in Fragments}

\* 0: a short text; 150: more than 100 words, so the length normalisation acts
PadChoices == {0, 150}

TextInputs ==
    {[kind |-> "text", content |-> Content(t, p)] : t \in TextsUpTo(MaxFrags), p \in PadChoices}

\* A score of a parsed analysis: << >> when the key is absent, <<v>> when present.
Section(section, name, choice) ==
    IF choice = << >> THEN << >> ELSE section :> (name :> choice[1])

AnalysisOf(bias, risk, cred, diversity) ==
    Section("bias_analysis", "overall_score", bias)
    @@ Section("misinformation_analysis", "risk_score", risk)
    @@ Section("credibility_assessment", "overall_score", cred)
    @@ Section("narrative_analysis", "perspective_diversity", diversity)

BiasChoices == {<< >>, <<Frac(70, 100)>>, <<Frac(75, 100)>>}
RiskChoices == {<< >>, <<Frac(20, 100)>>, <<Frac(60, 100)>>, <<Frac(65, 100)>>}
CredChoices == {<< >>, <<Frac(50, 100)>>, <<Frac(40, 100)>>, <<Frac(35, 100)>>}
DiversityChoices == {<< >>, <<Frac(50, 100)>>, <<Frac(30, 100)>>, <<Frac(25, 100)>>}

AnalysisInputs ==
    {[kind |-> "analysis", analysis |-> AnalysisOf(b, m, c, d)] :
        b \in BiasChoices, m \in RiskChoices, c \in CredChoices, d \in DiversityChoices}

NoCall == [fn |-> "none"]
Returned(fn, val) == [fn |-> fn, val |-> val]

\* The first call may be of any function; the second repeats the first.
MayCall(fn) == ret1 = NoCall \/ (ret1.fn = fn /\ ret2 = NoCall)

Record(fn, val) ==
    /\ MayCall(fn)
    /\ IF ret1 = NoCall
       THEN ret1' = Returned(fn, val) /\ UNCHANGED ret2
       ELSE ret2' = Returned(fn, val) /\ UNCHANGED ret1
    /\ UNCHANGED <<input, now, routeVars, uiVars>>

InitFn ==
    /\ input \in TextInputs \cup AnalysisInputs
    /\ now = 0
    /\ ret1 = NoCall
    /\ ret2 = NoCall
    /\ areq = IdleAnalyze
    /\ sreq = [p \in Slots |-> IdleStore]
    /\ articles = << >>
    /\ realtime_updates = << >>
    /\ clientConnected = FALSE
    /\ listing = IdleListing
    /\ sse = IdleStream
    /\ page = InitialPage
    /\ dash = InitialDashboard

CallComprehensive ==
    /\ input.kind = "text"
    /\ Record("generateComprehensiveFallbackAnalysis",
              generateComprehensiveFallbackAnalysis(input.content, now))

CallEnhanced ==
    /\ input.kind = "text"
    /\ Record("generateEnhancedFallbackAnalysis",
              generateEnhancedFallbackAnalysis(input.content))

CallExtractTopic ==
    /\ input.kind = "text"
    /\ Record("extractTopic", extractTopic(input.content))

CallInsights ==
    /\ input.kind = "analysis"
    /\ Record("generateAdditionalInsights", generateAdditionalInsights(input.analysis))

Tick ==
    /\ now < MaxClock
    /\ now' = now + 1
    /\ UNCHANGED <<input, ret1, ret2, routeVars, uiVars>>

NextFn ==
    \/ CallComprehensive
    \/ CallEnhanced
    \/ CallExtractTopic
    \/ CallInsights
    \/ Tick

SpecFn == InitFn /\ [][NextFn]_vars


(***************************************************************************)
(* Properties of the pure functions, checked under SpecFn.                 *)
(***************************************************************************)
Comprehensive == "generateComprehensiveFallbackAnalysis"
Enhanced == "generateEnhancedFallbackAnalysis"

Calls == {r \in {ret1, ret2} : r # NoCall}
CallsOf(fn) == {r \in Calls : r.fn = fn}

InUnit(x) == 0 <= x /\ x <= Scale
InSigned(r) == r.den > 0 /\ RatLeq(Rat(-1, 1), r) /\ RatLeq(r, Rat(1, 1))

ComprehensiveUnitScores(v) ==
    { v.bias_analysis.overall_score, v.bias_analysis.language_bias,
      v.bias_analysis.source_bias, v.bias_analysis.framing_bias,
      v.bias_analysis.selection_bias, v.bias_analysis.confirmation_bias,
      v.misinformation_analysis.risk_score, v.misinformation_analysis.evidence_quality,
      v.sentiment_analysis.emotional_manipulation, v.sentiment_analysis.subjectivity_score,
      v.narrative_analysis.perspective_diversity, v.narrative_analysis.narrative_coherence,
      v.credibility_assessment.overall_score, v.credibility_assessment.source_quality,
      v.credibility_assessment.evidence_quality, v.credibility_assessment.logical_consistency,
      v.credibility_assessment.transparency, v.technical_analysis.readability_score,
      v.confidence }

EnhancedUnitScores(v) ==
    {v.bias_score, v.misinformation_risk, v.credibility_score, v.confidence}

\* C1: every numeric field the two heuristic scorers return is within its declared
\* bound, for every text: the [0,1] scores in [0,1], the sentiment in [-1,1].
C1_ScoresInBounds ==
    /\ \A r \in CallsOf(Comprehensive) :
          /\ \A x \in ComprehensiveUnitScores(r.val) : InUnit(x)
          /\ InSigned(r.val.sentiment_analysis.overall_sentiment)
    /\ \A r \in CallsOf(Enhanced) :
          /\ \A x \in EnhancedUnitScores(r.val) : InUnit(x)
          /\ InSigned(r.val.sentiment)

\* A text of more than 100 words whose bias keywords exceed the divisor: the cap acts.
C1_Witness ==
    /\ ret1.fn = Comprehensive
    /\ input.content.pad > 100
    /\ ret1.val.bias_analysis.overall_score = Scale
    /\ RatLess(Rat(-1, 1), ret1.val.sentiment_analysis.overall_sentiment)
    /\ RatLess(ret1.val.sentiment_analysis.overall_sentiment, Rat(0, 1))

WithoutTime(v) == [v EXCEPT !.processing_time = 0]

EmptyContent == Content("", 0)

\* C4 as stated: for empty input every numeric score is 0 and every enum field is
\* its neutral value.
C4_EmptyAllZero ==
    \A r \in CallsOf(Comprehensive) :
        input.content = EmptyContent =>
            /\ \A x \in ComprehensiveUnitScores(r.val) : x = 0
            /\ r.val.sentiment_analysis.overall_sentiment.num = 0
            /\ r.val.bias_analysis.political_leaning = "center"
            /\ r.val.sentiment_analysis.emotional_tone = "neutral"
            /\ r.val.narrative_analysis.primary_frame = "general"

EmptyComprehensive(v) ==
    /\ DOMAIN v = {"bias_analysis", "misinformation_analysis", "sentiment_analysis",
                   "narrative_analysis", "credibility_assessment", "technical_analysis",
                   "recommendations", "confidence", "processing_time", "model_version"}
    /\ v.bias_analysis.overall_score = 0
    /\ v.bias_analysis.language_bias = 0
    /\ v.bias_analysis.framing_bias = 0
    /\ v.bias_analysis.selection_bias = 0
    /\ v.bias_analysis.confirmation_bias = 0
    /\ v.bias_analysis.source_bias = Frac(3, 10)
    /\ v.bias_analysis.political_leaning = "center"
    /\ v.misinformation_analysis.risk_score = 0
    /\ v.misinformation_analysis.evidence_quality = Scale
    /\ v.sentiment_analysis.overall_sentiment.num = 0
    /\ v.sentiment_analysis.emotional_tone = "neutral"
    /\ v.sentiment_analysis.emotional_manipulation = 0
    /\ v.sentiment_analysis.subjectivity_score = 0
    /\ v.narrative_analysis.primary_frame = "general"
    /\ v.narrative_analysis.perspective_diversity = Scale
    /\ v.narrative_analysis.narrative_coherence = Frac(7, 10)
    /\ v.credibility_assessment.overall_score = Scale
    /\ v.technical_analysis.word_count = 1
    /\ v.confidence = Frac(6, 10)
    /\ v.model_version = "fallback-comprehensive"

EmptyEnhanced(v) ==
    /\ DOMAIN v = {"bias_score", "misinformation_risk", "sentiment", "credibility_score",
                   "fact_checks", "narrative_analysis", "confidence", "processing_model"}
    /\ v.bias_score = 0
    /\ v.misinformation_risk = 0
    /\ v.sentiment.num = 0
    /\ v.credibility_score = Scale
    /\ v.narrative_analysis.primary_frame = "neutral"
    /\ v.narrative_analysis.emotional_tone = "neutral"
    /\ v.confidence = Frac(7, 10)
    /\ v.processing_model = "fallback-enhanced"

\* C4 amended: for empty input both scorers return a complete record in which the
\* scores derived from keyword counts (bias and its language, framing, selection and
\* confirmation parts, misinformation risk, sentiment, emotional manipulation,
\* subjectivity) are 0 and the leaning, tone and frame are neutral, while credibility,
\* evidence quality and perspective diversity are 1, the word count is 1 and the
\* constant sub-scores and the confidence keep their fixed non-zero values.
C4_EmptyDefaults ==
    /\ \A r \in CallsOf(Comprehensive) :
          input.content = EmptyContent => EmptyComprehensive(r.val)
    /\ \A r \in CallsOf(Enhanced) :
          input.content = EmptyContent => EmptyEnhanced(r.val)

C4_Witness ==
    /\ input.kind = "text"
    /\ input.content = EmptyContent
    /\ ret1.fn = Comprehensive
    /\ ret1.val.credibility_assessment.overall_score = Scale

InsightTypes ==
    <<"bias_warning", "misinformation_alert", "credibility_concern", "perspective_limitation">>

\* The rule of each insight type, as the specification states it.
RuleHolds(type, a) ==
    CASE type = "bias_warning" ->
            /\ "bias_analysis" \in DOMAIN a
            /\ "overall_score" \in DOMAIN a.bias_analysis
            /\ a.bias_analysis.overall_score * 10 > 7 * Scale
      [] type = "misinformation_alert" ->
            /\ "misinformation_analysis" \in DOMAIN a
            /\ "risk_score" \in DOMAIN a.misinformation_analysis
            /\ a.misinformation_analysis.risk_score * 10 > 6 * Scale
      [] type = "credibility_concern" ->
            /\ "credibility_assessment" \in DOMAIN a
            /\ "overall_score" \in DOMAIN a.credibility_assessment
            /\ a.credibility_assessment.overall_score * 10 < 4 * Scale
      [] type = "perspective_limitation" ->
            /\ "narrative_analysis" \in DOMAIN a
            /\ "perspective_diversity" \in DOMAIN a.narrative_analysis
            /\ a.narrative_analysis.perspective_diversity * 10 < 3 * Scale

TypesOf(insights) == [i \in 1..Len(insights) |-> insights[i].type]

ExpectedTypes(a) == SelectSeq(InsightTypes, LAMBDA t : RuleHolds(t, a))

TopicNames == {topicKeywords[i].topic : i \in 1..Len(topicKeywords)}
TopicCount(i, content) == MatchCount(topicKeywords[i].keywords, toLowerCase(content.text))

\* C9: extractTopic returns the category with the highest match count, the one
\* declared first among those that tie, and "general" when no category matches.
C9_TopicIsFirstMaximum ==
    \A r \in CallsOf("extractTopic") :
        LET count == [i \in 1..Len(topicKeywords) |-> TopicCount(i, input.content)]
            best == CHOOSE n \in {count[i] : i \in DOMAIN count} :
                        \A i \in DOMAIN count : count[i] <= n
            first == CHOOSE i \in DOMAIN count :
                        count[i] = best /\ \A j \in 1..(i - 1) : count[j] < best
        IN  /\ r.val \in TopicNames \cup {"general"}
            /\ best = 0 => r.val = "general"
            /\ best > 0 => r.val = topicKeywords[first].topic

\* politics and economy tie at three matches each, and politics is returned
C9_Witness ==
    /\ ret1.fn = "extractTopic"
    /\ ret1.val = "politics"
    /\ TopicCount(1, input.content) = 3
    /\ TopicCount(2, input.content) = 3

\* the lexicon entries the content matches
MatchedPhrases(keywords, text) ==
    {i \in 1..Len(keywords) : includes(toLowerCase(text), keywords[i])}

\* texts to compare a call with, and the risk each scorer gives them
RiskProbes == TextsUpTo(1)

ProbeRisk ==
    [t \in RiskProbes |->
        [comprehensiveMatched |-> MatchedPhrases(analysisKeywords.misinformation, t),
         comprehensive |->
            generateComprehensiveFallbackAnalysis(Content(t, 0), 0)
               .misinformation_analysis.risk_score,
         enhancedMatched |-> MatchedPhrases(misinfoIndicators, t),
         enhanced |-> generateEnhancedFallbackAnalysis(Content(t, 0)).misinformation_risk]]

\* C24: the heuristic misinformation risk is min(1, matched red-flag phrases / K),
\* K = 3 in the analysis route's scorer and 5 in the storage route's, and it is
\* monotone: a text that matches every phrase another text matches has a risk
\* at least as high.
C24_RiskMonotone ==
    /\ \A r \in CallsOf(Comprehensive) :
          LET matched == MatchedPhrases(analysisKeywords.misinformation, input.content.text)
              risk == r.val.misinformation_analysis.risk_score
          IN  /\ risk = Min(Scale, (Cardinality(matched) * Scale) \div 3)
              /\ \A t \in RiskProbes :
                    ProbeRisk[t].comprehensiveMatched \subseteq matched
                       => ProbeRisk[t].comprehensive <= risk
    /\ \A r \in CallsOf(Enhanced) :
          LET matched == MatchedPhrases(misinfoIndicators, input.content.text)
              risk == r.val.misinformation_risk
          IN  /\ risk = Min(Scale, (Cardinality(matched) * Scale) \div 5)
              /\ \A t \in RiskProbes :
                    ProbeRisk[t].enhancedMatched \subseteq matched
                       => ProbeRisk[t].enhanced <= risk

\* a text that matches strictly more phrases than a probe and has a higher risk
C24_Witness ==
    \E r \in CallsOf(Enhanced) :
    \E t \in RiskProbes :
        LET matched == MatchedPhrases(misinfoIndicators, input.content.text)
        IN  /\ ProbeRisk[t].enhancedMatched # {}
            /\ ProbeRisk[t].enhancedMatched \subseteq matched
            /\ ProbeRisk[t].enhancedMatched # matched
            /\ ProbeRisk[t].enhanced < r.val.misinformation_risk

\* the content contains a lexicon phrase as written, letter for letter
ContainsPhrase(keywords, text) ==
    \E i \in 1..Len(keywords) : includes(text, keywords[i])

\* C25: content that contains at least one phrase of the misinformation lexicon
\* gets a misinformation risk above 0 from the heuristic scorers.
C25_RedFlagGivesRisk ==
    /\ \A r \in CallsOf(Comprehensive) :
          ContainsPhrase(analysisKeywords.misinformation, input.content.text)
             => r.val.misinformation_analysis.risk_score > 0
    /\ \A r \in CallsOf(Enhanced) :
          ContainsPhrase(misinfoIndicators, input.content.text)
             => r.val.misinformation_risk > 0

\* one phrase in the text, and a risk of a third
C25_Witness ==
    \E r \in CallsOf(Comprehensive) :
        /\ ContainsPhrase(analysisKeywords.misinformation, input.content.text)
        /\ r.val.misinformation_analysis.risk_score > 0
        /\ r.val.misinformation_analysis.risk_score < Scale

(***************************************************************************)
(* Properties of the two routes, checked under SpecSeq.                    *)
(***************************************************************************)
Answered == areq.resp # << >>
Response == areq.resp[1]
Submission == areq.body.content[1]

InUnitOrAbsent(analysis, section, name) ==
    HasField(analysis, section, name) => InUnit(analysis[section][name])

\* C2 as stated: when the model's response parses but carries a score outside its
\* declared range, the analysis the POST handler returns and the values it sends
\* to storage are clamped into [0,1], or [-1,1] for the sentiment.
C2_ModelScoresClamped ==
    (Answered /\ areq.ai = "parsed" /\ Response.body.metadata.processing_model = "gemini-1.5-pro")
        => /\ InUnitOrAbsent(Response.body.analysis, "bias_analysis", "overall_score")
           /\ InUnitOrAbsent(Response.body.analysis, "misinformation_analysis", "risk_score")
           /\ InUnitOrAbsent(Response.body.analysis, "credibility_assessment", "overall_score")
           /\ HasField(Response.body.analysis, "sentiment_analysis", "overall_sentiment")
                 => InSigned(Response.body.analysis.sentiment_analysis.overall_sentiment)
           /\ areq.sent # << >>
                 => /\ InUnit(areq.sent[1].bias_score)
                    /\ InUnit(areq.sent[1].misinformation_risk)
                    /\ InUnit(areq.sent[1].credibility_score)
                    /\ InSigned(areq.sent[1].sentiment)

\* C5 as stated: when generateContent rejects, the caller receives a success
\* response carrying the heuristic scorer's record, tagged with the fallback
\* processing_model, with a confidence below the model's; no error response.
C5_RejectionFallsBack ==
    (Answered /\ areq.ai = "rejected")
        => /\ Response.status = 200
           /\ Response.body.success
           /\ Response.body.metadata.processing_model = "fallback-comprehensive"
           /\ WithoutTime(Response.body.analysis)
                 = WithoutTime(generateComprehensiveFallbackAnalysis(Submission, 0))
           /\ Response.body.analysis.confidence < InRangeAnalysis.confidence

\* C6: when the model's text is not valid JSON, the caller receives a success
\* response, never an error, whose analysis is the heuristic scorer's record for
\* the submitted content, with processing_model "fallback-comprehensive" and the
\* fixed confidence 0.6.
C6_UnparsableFallsBack ==
    (Answered /\ areq.ai = "unparsable")
        => /\ Response.status = 200
           /\ Response.body.success
           /\ WithoutTime(Response.body.analysis)
                 = WithoutTime(generateComprehensiveFallbackAnalysis(Submission, 0))
           /\ Response.body.metadata.processing_model = "fallback-comprehensive"
           /\ Response.body.analysis.confidence * 10 = 6 * Scale

\* the text has three red-flag phrases, so the heuristic risk is 1
C6_Witness ==
    /\ Answered
    /\ areq.ai = "unparsable"
    /\ Response.status = 200
    /\ Response.body.metadata.processing_model = "fallback-comprehensive"
    /\ Response.body.analysis.misinformation_analysis.risk_score = Scale

ExpectedKeys ==
    {"bias_analysis", "misinformation_analysis", "sentiment_analysis",
     "narrative_analysis", "credibility_assessment"}

\* C7 as stated: when the model returns valid JSON that lacks the expected
\* top-level keys, the handler falls back to the heuristic scorer and the caller
\* receives the heuristic record with the fallback processing_model tag.
C7_MissingKeysFallBack ==
    (/\ Answered
     /\ areq.ai = "parsed"
     /\ areq.analysis[1] # JsonNull
     /\ DOMAIN areq.analysis[1].v \cap ExpectedKeys = {})
        => /\ Response.body.metadata.processing_model = "fallback-comprehensive"
           /\ WithoutTime(Response.body.analysis)
                 = WithoutTime(generateComprehensiveFallbackAnalysis(Submission, 0))

Done(p) == sreq[p].pc = "done"
UrlOf(p) == sreq[p].body[1].url

\* the articles with the url of request p that were stored before p was submitted
EarlierWithUrl(p) ==
    {i \in 1..sreq[p].before.articles : articles[i].url = UrlOf(p)}

\* C10: a storage submission with a non-null url that arrives after an article
\* with that url was stored is answered success: false, "Article already exists",
\* with the id of the stored article and not with a 5xx status, and leaves the
\* articles and realtime_updates collections as they were; no two stored
\* articles share a non-null url.
C10_DuplicateRejected ==
    /\ \A p \in Slots :
          (Done(p) /\ ~sreq[p].refused /\ UrlOf(p) # << >> /\ EarlierWithUrl(p) # {})
              => /\ sreq[p].resp[1].status = 200
                 /\ sreq[p].resp[1].body.success = FALSE
                 /\ sreq[p].resp[1].body.error = "Article already exists"
                 /\ \E i \in EarlierWithUrl(p) : sreq[p].resp[1].body.id = articles[i]._id
                 /\ sreq[p].after = sreq[p].before
    /\ \A i, j \in 1..Len(articles) :
          (articles[i].url = articles[j].url /\ articles[i].url # << >>) => i = j

\* two client submissions of one url: the first stored, the second turned away
C10_Witness ==
    /\ Done(1) /\ Done(2)
    /\ UrlOf(1) = UrlOf(2)
    /\ UrlOf(1) # << >>
    /\ ~sreq[1].refused /\ ~sreq[2].refused
    /\ sreq[1].resp[1].body.success
    /\ sreq[2].resp[1].status = 200
    /\ sreq[2].resp[1].body.success = FALSE
    /\ sreq[2].resp[1].body.id = sreq[1].resp[1].body.id

\* C12 as stated: a submission without a url that follows stored articles without
\* a url and with other content is inserted, and is not reported as "already
\* exists".
C12_NullUrlNotDeduplicated ==
    \A p \in Slots :
        (/\ Done(p) /\ ~sreq[p].refused
         /\ UrlOf(p) = << >>
         /\ EarlierWithUrl(p) # {}
         /\ \A i \in EarlierWithUrl(p) : articles[i].content # sreq[p].body[1].content)
            => /\ sreq[p].resp[1].body.success
               /\ sreq[p].after.articles = sreq[p].before.articles + 1

\* C13: an analysis submission with neither content nor url is answered 400 at
\* once: the model is not called, no analysis (heuristic or other) is in the
\* response, and nothing is sent to storage.
C13_NoPayloadRejected ==
    (areq.pc # "idle" /\ areq.body.content = << >> /\ areq.body.url = << >>)
        => /\ areq.pc = "done"
           /\ Response.status = 400
           /\ DOMAIN Response.body = {"error"}
           /\ areq.calls = 0
           /\ areq.ai = "none"
           /\ areq.sent = << >>
           /\ sreq[0].pc = "idle"

C13_Witness ==
    /\ areq.pc = "done"
    /\ areq.body.content = << >> /\ areq.body.url = << >>
    /\ Response.status = 400
    /\ areq.calls = 0

\* C14 as stated: an analysis submission whose payload is in url only (content
\* absent or null) is not rejected: the caller receives a success response with
\* an analysis.
C14_UrlOnlyAccepted ==
    (areq.pc = "done" /\ areq.body.content = << >> /\ areq.body.url # << >>)
        => /\ Response.status = 200
           /\ Response.body.success
           /\ "analysis" \in DOMAIN Response.body

\* the article the storage route stored for the analysis route's submission
AnalysisStored ==
    /\ Answered /\ Response.status = 200
    /\ Done(0)
    /\ ~sreq[0].refused
    /\ sreq[0].resp[1].body.success

\* C15 as stated: the bias score, misinformation risk, sentiment, credibility
\* score and processing_model stored in the articles collection equal those of
\* the analysis in the response of the analysis POST handler.
C15_StoredEqualsReturned ==
    AnalysisStored
        => LET stored == sreq[0].article[1]
               analysis == Response.body.analysis
           IN  /\ stored.processing_model = Response.body.metadata.processing_model
               /\ stored.bias_score = OrZero(analysis, "bias_analysis", "overall_score")
               /\ stored.misinformation_risk
                     = OrZero(analysis, "misinformation_analysis", "risk_score")
               /\ stored.credibility_score
                     = OrZero(analysis, "credibility_assessment", "overall_score")
               /\ HasField(analysis, "sentiment_analysis", "overall_sentiment")
                     => stored.sentiment = analysis.sentiment_analysis.overall_sentiment

\* C16 as stated: every success response of the analysis POST handler, from the
\* model or from the heuristic scorer, is preceded by an attempt to send its
\* record to storage.
C16_SuccessAfterPersistAttempt ==
    (Answered /\ Response.status = 200 /\ Response.body.success)
        => areq.sent # << >>

\* the storage route could not be reached, or it answered with its 500
StorageFailed ==
    /\ areq.sent # << >>
    /\ \/ sreq[0].pc = "idle"
       \/ Done(0) /\ sreq[0].resp[1].status = 500

\* C17 as stated: when storage is unreachable or the write fails during an
\* analysis submission, the caller receives a 5xx failure response and success
\* is not reported as true.
C17_StorageFailureSurfaced ==
    (Answered /\ StorageFailed)
        => /\ Response.status >= 500
           /\ Response.body.success = FALSE

\* C18 as stated: the success response on the heuristic path has the top-level
\* keys of analysis (additional_insights and processing_timestamp among them)
\* and of metadata that the response on the AI path has.
C18_FallbackSameShape ==
    (/\ Answered /\ Response.status = 200
     /\ Response.body.metadata.processing_model = "fallback-comprehensive")
        => /\ {"additional_insights", "processing_timestamp"}
                 \subseteq DOMAIN Response.body.analysis
           /\ DOMAIN Response.body.metadata
                 = DOMAIN AnalysisResponse(Submission, InRangeAnalysis, 0).body.metadata

\* C19 as stated: on a successful answer of the external service, a numeric field
\* the answer omits or reports as 0 is 0 in the resulting record, never a random
\* or otherwise non-zero value.
C19_MissingDefaultsToZero ==
    \A p \in Slots :
        (sreq[p].article # << >> /\ sreq[p].cloud[1].outcome = "ok")
            => \A name \in RandomFields :
                  FalsyNumber(sreq[p].cloud[1].prediction, name)
                     => IF name = "sentiment"
                        THEN sreq[p].article[1][name].num = 0
                        ELSE sreq[p].article[1][name] = 0

\* the returned analysis is the heuristic scorer's record for the submission
HeuristicAnalysis ==
    /\ "processing_time" \in DOMAIN Response.body.analysis
    /\ WithoutTime(Response.body.analysis)
          = WithoutTime(generateComprehensiveFallbackAnalysis(Submission, 0))

\* C21: every success response of the analysis POST handler carries a
\* processing_model tag, and the tag is the fallback tag exactly when the returned
\* analysis is the heuristic scorer's record; under the model's tag the analysis
\* carries every key of the object the model returned. The storage route's
\* analysis is tagged "fallback-enhanced" exactly when the cloud service failed.
C21_ProvenanceTagged ==
    /\ (Answered /\ Response.status = 200 /\ Response.body.success)
          => /\ "processing_model" \in DOMAIN Response.body.metadata
             /\ Response.body.metadata.processing_model
                   \in {"gemini-1.5-pro", "fallback-comprehensive"}
             /\ Response.body.metadata.processing_model = "fallback-comprehensive"
                   <=> HeuristicAnalysis
             /\ Response.body.metadata.processing_model = "gemini-1.5-pro"
                   => /\ areq.ai = "parsed"
                      /\ areq.analysis[1] # JsonNull
                      /\ \A k \in DOMAIN areq.analysis[1].v :
                            Response.body.analysis[k] = areq.analysis[1].v[k]
    /\ \A p \in Slots :
          sreq[p].article # << >>
             => /\ sreq[p].article[1].processing_model \in {"google-cloud-ai", "fallback-enhanced"}
                /\ sreq[p].article[1].processing_model = "fallback-enhanced"
                      <=> sreq[p].cloud[1].outcome # "ok"

\* the model answered null: reading a key of it throws, and the catch answers
C21_Witness ==
    /\ Answered
    /\ areq.ai = "parsed"
    /\ areq.analysis[1] = JsonNull
    /\ Response.status = 200
    /\ Response.body.metadata.processing_model = "fallback-comprehensive"
    /\ HeuristicAnalysis

CloudFailed(p) ==
    /\ sreq[p].article # << >>
    /\ sreq[p].cloud[1].outcome \in {"rejects", "not ok"}

\* C22: when the external analysis endpoint cannot be reached or answers with a
\* non-success status, analyzeContentWithGoogleAI returns the record of
\* generateEnhancedFallbackAnalysis for the same content, tagged
\* "fallback-enhanced" with confidence 0.7, and the storage request goes on.
C22_CloudFailureFallsBack ==
    \A p \in Slots :
        CloudFailed(p)
            => LET article == sreq[p].article[1]
                   fallback == generateEnhancedFallbackAnalysis(sreq[p].body[1].content)
               IN  /\ \A k \in DOMAIN fallback : article[k] = fallback[k]
                   /\ article.processing_model = "fallback-enhanced"
                   /\ article.confidence * 10 = 7 * Scale
                   /\ sreq[p].pc # "connect"
                   /\ Done(p) => sreq[p].resp[1].status = 200

C22_Witness ==
    /\ CloudFailed(0)
    /\ sreq[0].cloud[1].outcome = "rejects"
    /\ Done(0)
    /\ sreq[0].resp[1].body.success
    /\ articles[1].processing_model = "fallback-enhanced"
    /\ articles[1].misinformation_risk > 0

\* C23: the analysis POST handler invokes the external model at most once for a
\* submission, on every path: exactly once when it gets past the content check,
\* also when the call rejects or its text cannot be parsed.
C23_SingleAttempt ==
    /\ areq.calls <= 1
    /\ areq.pc \in {"store", "awaitStore", "respond"} => areq.calls = 1
    /\ (Answered /\ Response.status # 400) => areq.calls = 1

C23_Witness ==
    /\ Answered
    /\ areq.ai = "rejected"
    /\ Response.status = 500
    /\ areq.calls = 1

(***************************************************************************)
(* Properties of overlapping submissions, checked under SpecConc.          *)
(***************************************************************************)
\* the request that inserted the article with this _id
Inserted(p, id) ==
    /\ sreq[p].pc \in {"trigger", "respond", "done"}
    /\ sreq[p].article # << >>
    /\ "_id" \in DOMAIN sreq[p].article[1]
    /\ sreq[p].article[1]._id = id

\* C11: duplicate detection is not transactional. Two stored articles share a
\* non-null url only through the race: the request that inserted the later one
\* ran its findOne before the earlier one was inserted. The race itself is
\* reachable (C11_Witness): both requests pass findOne before either inserts and
\* both insertOne calls succeed.
C11_DuplicatesOnlyByRace ==
    \A i, j \in 1..Len(articles) :
        (i < j /\ articles[i].url = articles[j].url /\ articles[i].url # << >>)
            => \E q \in Slots : Inserted(q, articles[j]._id) /\ sreq[q].seen < i

C11_Witness ==
    /\ Len(articles) = 2
    /\ articles[1].url = articles[2].url
    /\ articles[1].url # << >>
    /\ \A p \in {1, 2} :
          /\ Done(p)
          /\ sreq[p].seen = 0
          /\ sreq[p].resp[1].status = 200
          /\ sreq[p].resp[1].body.success

\* C20 as stated: no request's database operation runs on a connection another
\* request has closed, and a request whose database is reachable has the outcome
\* it has when nothing overlaps with it: it is never answered with the 500 of the
\* catch block.
C20_NoSharedClientInterference ==
    \A p \in Slots :
        /\ sreq[p].pc \in {"findOne", "insertOne"} => clientConnected
        /\ (Done(p) /\ ~sreq[p].refused) => sreq[p].resp[1].status = 200

(***************************************************************************)
(* Properties of the listing, checked under SpecList.                      *)
(***************************************************************************)
Listed == listing.pc = "done" /\ listing.resp.status = 200
ListedData == listing.resp.body.data

MatchesFilters(article) ==
    /\ listing.source # << >> => article.source = listing.source[1]
    /\ listing.topic # << >> => article.topic = listing.topic[1]

\* the limit the request asks for: 10 when it names none
RequestedLimit == IF listing.limit = << >> THEN 10 ELSE parseInt(listing.limit[1])

\* C26 as stated: the listing returns at most limit articles (10 when no limit
\* is given), all matching the source and topic filters, newest first, and
\* leaves out no matching article newer than one it returns.
C26_ListingBounded ==
    Listed
        => /\ Len(ListedData) <= RequestedLimit
           /\ \A k \in 1..Len(ListedData) : MatchesFilters(ListedData[k])
           /\ \A k \in 1..(Len(ListedData) - 1) :
                 ListedData[k].timestamp >= ListedData[k + 1].timestamp
           /\ \A i \in 1..Len(articles) :
                 (MatchesFilters(articles[i])
                  /\ \A k \in 1..Len(ListedData) : ListedData[k]._id # articles[i]._id)
                    => \A k \in 1..Len(ListedData) :
                          articles[i].timestamp <= ListedData[k].timestamp

(***************************************************************************)
(* Properties of the event stream, checked under SpecStream.               *)
(***************************************************************************)
\* C27 as stated: once the client has aborted and controller.close() has run, no
\* callback calls controller.enqueue, neither for the update nor in its error
\* branch.
C27_NoEnqueueAfterClose ==
    sse.pc # "idle"
        => /\ sse.late = 0
           /\ \A t \in Ticks : sse.ticks[t].pc # "threw"

\* the types of the messages tick t put on the stream, in order
RECURSIVE TypesOfTick(_, _)
TypesOfTick(t, k) ==
    IF k > Len(sse.stream) THEN << >>
    ELSE (IF sse.stream[k].tick = t THEN <<sse.stream[k].type>> ELSE << >>)
         \o TypesOfTick(t, k + 1)

Finished(t) == sse.ticks[t].pc \in {"done", "threw"}

\* the tick failed: its reads failed, or its try block threw
TickFailed(t) == sse.ticks[t].pc = "threw" \/ sse.ticks[t].reads.database = "failed"

\* C28 as stated: the first message is "connection"; afterwards each tick emits
\* exactly one "comprehensive_update", followed by an "alert" exactly when its
\* alerts list is non-empty, or exactly one "error" message when the tick fails.
C28_TickMessages ==
    sse.pc # "idle"
        => /\ sse.stream[1].type = "connection"
           /\ \A k \in 2..Len(sse.stream) : sse.stream[k].type # "connection"
           /\ \A t \in Ticks :
                 Finished(t)
                    => TypesOfTick(t, 1)
                          = IF TickFailed(t) THEN <<"error">>
                            ELSE IF sse.ticks[t].reads.alerts > 0
                            THEN <<"comprehensive_update", "alert">>
                            ELSE <<"comprehensive_update">>

(***************************************************************************)
(* Properties of the analyze page, checked under SpecPage.                 *)
(***************************************************************************)
\* C29: on the analyze page isAnalyzing and analysisComplete are never both
\* true, and analysisComplete is true only when analysisResults holds the
\* response of the current analysis.
C29_CompleteOnlyWithResults ==
    /\ ~(page.isAnalyzing /\ page.analysisComplete)
    /\ page.analysisComplete
          => /\ page.run > 0
             /\ page.analysisResults = <<page.run>>
             /\ page.request = "none"

\* a second analysis has completed after the first one did
C29_Witness ==
    /\ page.analysisComplete
    /\ ~page.isAnalyzing
    /\ page.run = 2
    /\ page.analysisResults = <<2>>
    /\ page.analysisProgress = 100

(***************************************************************************)
(* Properties of the dashboard page, checked under SpecDash.               *)
(***************************************************************************)
\* C30: for each data set of the dashboard the loading flag is true whenever
\* a fetch of that data set is in flight, and once no fetch is in flight
\* the data shown is that of the most recently started fetch (when that
\* fetch stored a response).
C30_LoadingCoversFetches ==
    \A k \in DataSets :
        /\ dash.inFlight[k] # {} => dash.isLoading[k]
        /\ (dash.inFlight[k] = {} /\ dash.started \in dash.succeeded[k])
              => dash.data[k] = dash.started

=============================================================================
